---- MODULE Spec2Model ----
(***************************************************************************)
(* Theron's NonBlockingQueue (Include/Theron/Detail/Scheduler/              *)
(* NonBlockingQueue.h): one shared work queue protected by a spinlock and   *)
(* one unprotected local work queue per worker context.                     *)
(*                                                                          *)
(* Every thread owns one context, so contexts are indexed by their thread.  *)
(* Push, Pop and Empty are cut into the steps at which another thread can   *)
(* observe them.  The local-queue branch (touched by its owner only) is one *)
(* step.  The shared-queue branch is two: the reads of the caller's own     *)
(* context together with Lock(), which returns once the spinlock is taken,  *)
(* then the guarded access together with Unlock().  Pop's tail (Reset or    *)
(* Execute, and the return) is a step of its own.                           *)
(***************************************************************************)
EXTENDS Integers, Sequences, FiniteSets, TLC

NumItems == 3      \* mailboxes in the system
MaxYield == 1      \* the backoff counter saturates here

Workers == {"w1", "w2"}
Externals == {"e1"}
Threads == Workers \cup Externals
Items == 1..NumItems
None == 0
NoThread == "free"

VARIABLES
    mShared,            \* ContextType::mShared, per context
    mLocalWorkQueue,    \* ContextType::mLocalWorkQueue, per context
    mYield,             \* ContextType::mYield: consecutive failed polls
    mSharedWorkQueue,   \* NonBlockingQueue::mSharedWorkQueue
    mSharedWorkQueueSpinLock,  \* the thread holding the spinlock, or NoThread
    pc,                 \* where each thread is
    mailbox,            \* Push's argument / Pop's local, per thread
    held,               \* the mailboxes each thread holds outside the queue
    pushing,            \* FALSE once the producers have stopped
    \* history
    localSeq,           \* per context: mailboxes pushed to its local queue
                        \* and not popped since, in push order
    sharedSeq,          \* the same for the shared queue
    via,                \* per mailbox: the worker context it was last pushed
                        \* through with local affinity, if any
    outstanding,        \* per mailbox: pushes minus successful pops
    lastEmpty,          \* per worker: what its last Empty call answered
    unguarded           \* TRUE once the shared queue was accessed without the lock

vars == <<mShared, mLocalWorkQueue, mYield, mSharedWorkQueue,
          mSharedWorkQueueSpinLock, pc, mailbox, held, pushing,
          localSeq, sharedSeq, via, outstanding, lastEmpty, unguarded>>

histVars == <<localSeq, sharedSeq, via, outstanding, lastEmpty, unguarded>>

----------------------------------------------------------------------------
(* Collaborators: Queue<Mailbox>, SpinLock, YieldImplementation. *)

QueueEmpty(q) == q = <<>>
QueuePush(q, m) == Append(q, m)
QueueFront(q) == Head(q)
QueuePop(q) == Tail(q)

SpinLockLock(t) ==
    /\ mSharedWorkQueueSpinLock = NoThread
    /\ mSharedWorkQueueSpinLock' = t

SpinLockUnlock ==
    mSharedWorkQueueSpinLock' = NoThread

YieldReset(y) == 0
YieldExecute(y) == IF y < MaxYield THEN y + 1 ELSE y

----------------------------------------------------------------------------
(* History bookkeeping *)

NoProbe == [res |-> "none", head |-> None]

\* s without its entries equal to m
Without(s, m) == SelectSeq(s, LAMBDA x : x # m)

\* a push ends the validity of the "true" answers it contradicts
ClearTrue(S) ==
    [t \in Workers |->
        IF t \in S /\ lastEmpty[t].res = "true" THEN NoProbe ELSE lastEmpty[t]]

\* t starts another call: its last answer is no longer "the last call"
Forget(t) ==
    [w \in Workers |-> IF w = t THEN NoProbe ELSE lastEmpty[w]]

----------------------------------------------------------------------------
Init ==
    /\ mShared = [t \in Threads |-> FALSE]
    /\ mLocalWorkQueue = [t \in Threads |-> <<>>]
    /\ mYield = [t \in Threads |-> 0]
    /\ mSharedWorkQueue = <<>>
    /\ mSharedWorkQueueSpinLock = NoThread
    /\ pc = [t \in Threads |-> "uninit"]
    /\ mailbox = [t \in Threads |-> None]
    /\ held \in {h \in [Threads -> SUBSET Items] :
                    /\ \A i \in Items : \E t \in Threads : i \in h[t]
                    /\ \A s, t \in Threads : s # t => h[s] \cap h[t] = {}}
    /\ pushing = TRUE
    /\ localSeq = [t \in Threads |-> <<>>]
    /\ sharedSeq = <<>>
    /\ via = [i \in Items |-> NoThread]
    /\ outstanding = [i \in Items |-> 0]
    /\ lastEmpty = [t \in Workers |-> NoProbe]
    /\ unguarded = FALSE

InitializeSharedContext(t) ==
    /\ t \in Externals
    /\ pc[t] = "uninit"
    /\ mShared' = [mShared EXCEPT ![t] = TRUE]
    /\ pc' = [pc EXCEPT ![t] = "idle"]
    /\ UNCHANGED <<mLocalWorkQueue, mYield, mSharedWorkQueue,
                   mSharedWorkQueueSpinLock, mailbox, held, pushing>>
    /\ UNCHANGED histVars

InitializeWorkerContext(t) ==
    /\ t \in Workers
    /\ pc[t] = "uninit"
    /\ mShared' = [mShared EXCEPT ![t] = FALSE]
    /\ pc' = [pc EXCEPT ![t] = "idle"]
    /\ UNCHANGED <<mLocalWorkQueue, mYield, mSharedWorkQueue,
                   mSharedWorkQueueSpinLock, mailbox, held, pushing>>
    /\ UNCHANGED histVars

----------------------------------------------------------------------------
(* Push *)

\* the hint is read the wrong way round
PushIsLocal_inverted(t, localThread) == ~localThread /\ ~mShared[t]

\* the hint is ignored: a worker context always pushes to its local queue
PushIsLocal_always(t, localThread) == ~mShared[t]

\* the shared flag is ignored: the hint alone decides
PushIsLocal_ignoresShared(t, localThread) == localThread

\* line 201: the mailbox goes to the caller's local queue
PushIsLocal(t, localThread) == localThread /\ ~mShared[t]

\* line 211
PushLock(t) == SpinLockLock(t)

PushBegin(t, m, localThread) ==
    /\ pc[t] = "idle"
    /\ pushing
    /\ m \in held[t]
    /\ IF PushIsLocal(t, localThread)
         THEN /\ mLocalWorkQueue' =
                    [mLocalWorkQueue EXCEPT ![t] = QueuePush(@, m)]
              /\ held' = [held EXCEPT ![t] = @ \ {m}]
              /\ localSeq' = [localSeq EXCEPT ![t] = Append(@, m)]
              /\ outstanding' = [outstanding EXCEPT ![m] = @ + 1]
              /\ UNCHANGED <<pc, mailbox>>
              /\ UNCHANGED mSharedWorkQueueSpinLock
         ELSE /\ PushLock(t)
              /\ pc' = [pc EXCEPT ![t] = "push_cs"]
              /\ mailbox' = [mailbox EXCEPT ![t] = m]
              /\ UNCHANGED <<mLocalWorkQueue, held, localSeq, outstanding>>
    /\ via' = [via EXCEPT ![m] =
                  IF localThread /\ t \in Workers THEN t ELSE NoThread]
    /\ lastEmpty' = Forget(t)
    /\ UNCHANGED <<mShared, mYield, mSharedWorkQueue, pushing, sharedSeq,
                   unguarded>>

PushShared(t) ==
    /\ pc[t] = "push_cs"
    /\ mSharedWorkQueue' = QueuePush(mSharedWorkQueue, mailbox[t])
    /\ SpinLockUnlock
    /\ held' = [held EXCEPT ![t] = @ \ {mailbox[t]}]
    /\ sharedSeq' = Append(sharedSeq, mailbox[t])
    /\ outstanding' = [outstanding EXCEPT ![mailbox[t]] = @ + 1]
    /\ lastEmpty' = ClearTrue(Workers)
    /\ unguarded' = (unguarded \/ mSharedWorkQueueSpinLock # t)
    /\ pc' = [pc EXCEPT ![t] = "idle"]
    /\ mailbox' = [mailbox EXCEPT ![t] = None]
    /\ UNCHANGED <<mShared, mLocalWorkQueue, mYield, pushing, localSeq, via>>

----------------------------------------------------------------------------
(* Pop *)

\* the front is read but stays queued
PopLocal_keep(t) ==
    /\ mailbox' = [mailbox EXCEPT ![t] = QueueFront(mLocalWorkQueue[t])]
    /\ UNCHANGED mLocalWorkQueue
    /\ localSeq' = [localSeq EXCEPT ![t] =
                        Without(@, QueueFront(mLocalWorkQueue[t]))]

\* the newest mailbox is taken instead of the oldest
PopLocal_last(t) ==
    LET q == mLocalWorkQueue[t] IN
    /\ mailbox' = [mailbox EXCEPT ![t] = q[Len(q)]]
    /\ mLocalWorkQueue' = [mLocalWorkQueue EXCEPT ![t] = SubSeq(q, 1, Len(q) - 1)]
    /\ localSeq' = [localSeq EXCEPT ![t] = Without(@, q[Len(q)])]

\* lines 240-244: mailbox = context->mLocalWorkQueue.Pop()
PopLocal(t) ==
    /\ mailbox' = [mailbox EXCEPT ![t] = QueueFront(mLocalWorkQueue[t])]
    /\ mLocalWorkQueue' = [mLocalWorkQueue EXCEPT ![t] = QueuePop(@)]
    /\ localSeq' = [localSeq EXCEPT ![t] =
                        Without(@, QueueFront(mLocalWorkQueue[t]))]

\* the assertion tests the shared flag the wrong way round
PopAssertion_inverted(t) == mShared[t] = TRUE

\* line 223: THERON_ASSERT(context->mShared == false)
PopAssertion(t) == mShared[t] = FALSE

\* line 231
PopLock(t) == SpinLockLock(t)

\* the call to Unlock() is missing
PopUnlock_missing == UNCHANGED mSharedWorkQueueSpinLock

\* line 238
PopUnlock == SpinLockUnlock

\* the shared queue is looked at first
PopBegin_sharedFirst(t) ==
    /\ pc[t] = "idle"
    /\ t \in Workers
    /\ PopAssertion(t)
    /\ IF QueueEmpty(mLocalWorkQueue[t]) \/ ~QueueEmpty(mSharedWorkQueue)
         THEN /\ PopLock(t)
              /\ pc' = [pc EXCEPT ![t] = "pop_cs"]
              /\ UNCHANGED <<mLocalWorkQueue, mailbox, localSeq>>
         ELSE /\ PopLocal(t)
              /\ pc' = [pc EXCEPT ![t] = "pop_ret"]
              /\ UNCHANGED mSharedWorkQueueSpinLock
    /\ UNCHANGED <<mShared, mYield, mSharedWorkQueue, held, pushing,
                   sharedSeq, via, outstanding, lastEmpty, unguarded>>

PopBegin(t) ==
    /\ pc[t] = "idle"
    /\ t \in Workers
    /\ PopAssertion(t)
    /\ IF QueueEmpty(mLocalWorkQueue[t])
         THEN /\ PopLock(t)
              /\ pc' = [pc EXCEPT ![t] = "pop_cs"]
              /\ UNCHANGED <<mLocalWorkQueue, mailbox, localSeq>>
         ELSE /\ PopLocal(t)
              /\ pc' = [pc EXCEPT ![t] = "pop_ret"]
              /\ UNCHANGED mSharedWorkQueueSpinLock
    /\ UNCHANGED <<mShared, mYield, mSharedWorkQueue, held, pushing,
                   sharedSeq, via, outstanding, lastEmpty, unguarded>>

\* the front is read but stays queued
TakeShared_keep(t) ==
    IF ~QueueEmpty(mSharedWorkQueue)
      THEN /\ mailbox' = [mailbox EXCEPT ![t] = QueueFront(mSharedWorkQueue)]
           /\ UNCHANGED <<mSharedWorkQueue, mLocalWorkQueue, localSeq>>
           /\ sharedSeq' = Without(sharedSeq, QueueFront(mSharedWorkQueue))
      ELSE UNCHANGED <<mailbox, mSharedWorkQueue, sharedSeq,
                       mLocalWorkQueue, localSeq>>

\* the newest mailbox is taken instead of the oldest
TakeShared_last(t) ==
    LET q == mSharedWorkQueue IN
    IF ~QueueEmpty(q)
      THEN /\ mailbox' = [mailbox EXCEPT ![t] = q[Len(q)]]
           /\ mSharedWorkQueue' = SubSeq(q, 1, Len(q) - 1)
           /\ sharedSeq' = Without(sharedSeq, q[Len(q)])
           /\ UNCHANGED <<mLocalWorkQueue, localSeq>>
      ELSE UNCHANGED <<mailbox, mSharedWorkQueue, sharedSeq,
                       mLocalWorkQueue, localSeq>>

\* an idle worker helps itself to another worker's local queue
TakeShared_steal(t) ==
    LET busy == {o \in Workers \ {t} : ~QueueEmpty(mLocalWorkQueue[o])} IN
    IF ~QueueEmpty(mSharedWorkQueue)
      THEN /\ mailbox' = [mailbox EXCEPT ![t] = QueueFront(mSharedWorkQueue)]
           /\ mSharedWorkQueue' = QueuePop(mSharedWorkQueue)
           /\ sharedSeq' = Without(sharedSeq, QueueFront(mSharedWorkQueue))
           /\ UNCHANGED <<mLocalWorkQueue, localSeq>>
      ELSE IF busy # {}
        THEN LET o == CHOOSE x \in busy : TRUE
                 m == QueueFront(mLocalWorkQueue[o]) IN
             /\ mailbox' = [mailbox EXCEPT ![t] = m]
             /\ mLocalWorkQueue' = [mLocalWorkQueue EXCEPT ![o] = QueuePop(@)]
             /\ localSeq' = [localSeq EXCEPT ![o] = Without(@, m)]
             /\ UNCHANGED <<mSharedWorkQueue, sharedSeq>>
        ELSE UNCHANGED <<mailbox, mSharedWorkQueue, sharedSeq,
                         mLocalWorkQueue, localSeq>>

\* the front is unlinked but not handed to the caller
TakeShared_drop(t) ==
    IF ~QueueEmpty(mSharedWorkQueue)
      THEN /\ mSharedWorkQueue' = QueuePop(mSharedWorkQueue)
           /\ sharedSeq' = Without(sharedSeq, QueueFront(mSharedWorkQueue))
           /\ UNCHANGED <<mailbox, mLocalWorkQueue, localSeq>>
      ELSE UNCHANGED <<mailbox, mSharedWorkQueue, sharedSeq,
                       mLocalWorkQueue, localSeq>>

\* the emptiness test is inverted: nothing is ever taken
TakeShared_inverted(t) ==
    UNCHANGED <<mailbox, mSharedWorkQueue, sharedSeq, mLocalWorkQueue,
                localSeq>>

\* lines 233-236: if the shared queue is not empty, mailbox = its Pop();
\* no local queue is touched
TakeShared(t) ==
    /\ IF ~QueueEmpty(mSharedWorkQueue)
         THEN /\ mailbox' =
                    [mailbox EXCEPT ![t] = QueueFront(mSharedWorkQueue)]
              /\ mSharedWorkQueue' = QueuePop(mSharedWorkQueue)
              /\ sharedSeq' =
                    Without(sharedSeq, QueueFront(mSharedWorkQueue))
         ELSE UNCHANGED <<mailbox, mSharedWorkQueue, sharedSeq>>
    /\ UNCHANGED <<mLocalWorkQueue, localSeq>>

PopShared(t) ==
    /\ pc[t] = "pop_cs"
    /\ TakeShared(t)
    /\ PopUnlock
    /\ unguarded' = (unguarded \/ mSharedWorkQueueSpinLock # t)
    /\ pc' = [pc EXCEPT ![t] = "pop_ret"]
    /\ UNCHANGED <<mShared, mYield, held, pushing, via, outstanding,
                   lastEmpty>>

\* a successful Pop leaves the backoff state where the failed ones left it
PopYield_noReset(t) ==
    IF mailbox[t] # None
      THEN UNCHANGED mYield
      ELSE mYield' = [mYield EXCEPT ![t] = YieldExecute(@)]

\* a failed Pop starts the backoff over instead of escalating
PopYield_restart(t) ==
    IF mailbox[t] # None
      THEN mYield' = [mYield EXCEPT ![t] = YieldReset(@)]
      ELSE mYield' = [mYield EXCEPT ![t] = YieldReset(@)]

\* lines 246-253: Reset() if a mailbox was found, Execute() otherwise
PopYield(t) ==
    IF mailbox[t] # None
      THEN mYield' = [mYield EXCEPT ![t] = YieldReset(@)]
      ELSE mYield' = [mYield EXCEPT ![t] = YieldExecute(@)]

PopReturn(t) ==
    /\ pc[t] = "pop_ret"
    /\ PopYield(t)
    /\ IF mailbox[t] # None
         THEN /\ held' = [held EXCEPT ![t] = @ \cup {mailbox[t]}]
              /\ outstanding' = [outstanding EXCEPT ![mailbox[t]] = @ - 1]
              /\ via' = [via EXCEPT ![mailbox[t]] = NoThread]
              /\ pc' = [pc EXCEPT ![t] = "idle"]
         ELSE /\ pc' = [pc EXCEPT ![t] = IF pushing THEN "idle" ELSE "done"]
              /\ UNCHANGED <<held, outstanding, via>>
    /\ mailbox' = [mailbox EXCEPT ![t] = None]
    /\ lastEmpty' = Forget(t)
    /\ UNCHANGED <<mShared, mLocalWorkQueue, mSharedWorkQueue,
                   mSharedWorkQueueSpinLock, pushing, localSeq, sharedSeq,
                   unguarded>>

----------------------------------------------------------------------------
(* Empty *)

\* the shared flag is tested the wrong way round
EmptyLocalHasWork_inverted(t) ==
    mShared[t] /\ ~QueueEmpty(mLocalWorkQueue[t])

\* lines 169-175: the context has a local queue and it is not empty
EmptyLocalHasWork(t) ==
    ~mShared[t] /\ ~QueueEmpty(mLocalWorkQueue[t])

\* the call to Lock() is missing
EmptyLock_missing(t) == UNCHANGED mSharedWorkQueueSpinLock

\* line 179
EmptyLock(t) == SpinLockLock(t)

EmptyBegin(t) ==
    /\ pc[t] = "idle"
    /\ pushing
    /\ IF EmptyLocalHasWork(t)
         THEN /\ lastEmpty' =
                    [w \in Workers |->
                        IF w = t
                          THEN [res |-> "false_local",
                                head |-> QueueFront(mLocalWorkQueue[t])]
                          ELSE lastEmpty[w]]
              /\ UNCHANGED <<pc, mSharedWorkQueueSpinLock>>
         ELSE /\ EmptyLock(t)
              /\ pc' = [pc EXCEPT ![t] = "empty_cs"]
              /\ lastEmpty' = Forget(t)
    /\ UNCHANGED <<mShared, mLocalWorkQueue, mYield, mSharedWorkQueue,
                   mailbox, held, pushing, localSeq, sharedSeq, via,
                   outstanding, unguarded>>

EmptyShared(t) ==
    /\ pc[t] = "empty_cs"
    /\ lastEmpty' =
          [w \in Workers |->
              IF w = t /\ QueueEmpty(mSharedWorkQueue)
                THEN [res |-> "true", head |-> None]
                ELSE lastEmpty[w]]
    /\ SpinLockUnlock
    /\ unguarded' = (unguarded \/ mSharedWorkQueueSpinLock # t)
    /\ pc' = [pc EXCEPT ![t] = "idle"]
    /\ UNCHANGED <<mShared, mLocalWorkQueue, mYield, mSharedWorkQueue,
                   mailbox, held, pushing, localSeq, sharedSeq, via,
                   outstanding>>

----------------------------------------------------------------------------
(* The producers stop; from then on the workers only poll with Pop, each   *)
(* until Pop returns no mailbox.                                           *)

StopPushing ==
    /\ pushing
    /\ \A t \in Threads : pc[t] \in {"idle", "uninit"}
    /\ pushing' = FALSE
    /\ lastEmpty' = [t \in Workers |-> NoProbe]
    /\ UNCHANGED <<mShared, mLocalWorkQueue, mYield, mSharedWorkQueue,
                   mSharedWorkQueueSpinLock, pc, mailbox, held, localSeq,
                   sharedSeq, via, outstanding, unguarded>>

Next ==
    \/ \E t \in Threads : InitializeSharedContext(t)
    \/ \E t \in Threads : InitializeWorkerContext(t)
    \/ \E t \in Threads, m \in Items, localThread \in BOOLEAN :
            PushBegin(t, m, localThread)
    \/ \E t \in Threads : PushShared(t)
    \/ \E t \in Threads : PopBegin(t)
    \/ \E t \in Threads : PopShared(t)
    \/ \E t \in Threads : PopReturn(t)
    \/ \E t \in Threads : EmptyBegin(t)
    \/ \E t \in Threads : EmptyShared(t)
    \/ StopPushing

Spec == Init /\ [][Next]_vars

\* A thread that is initialising its context or is inside a call keeps
\* running until the call returns.
Running(t) ==
    \/ InitializeSharedContext(t)
    \/ InitializeWorkerContext(t)
    \/ PushShared(t)
    \/ PopShared(t)
    \/ PopReturn(t)
    \/ EmptyShared(t)

\* Threads keep running, every worker keeps calling Pop, and a Pop that
\* needs the spinlock gets it if it is free again and again.
FairSpec ==
    /\ Spec
    /\ \A t \in Threads : WF_vars(Running(t))
    /\ \A t \in Workers : SF_vars(PopBegin(t))

----------------------------------------------------------------------------
(* Where a mailbox is *)

Count(q, m) == Len(SelectSeq(q, LAMBDA x : x = m))

RECURSIVE CountLocal(_, _)
CountLocal(m, S) ==
    IF S = {} THEN 0
    ELSE LET t == CHOOSE x \in S : TRUE
         IN Count(mLocalWorkQueue[t], m) + CountLocal(m, S \ {t})

\* copies of m linked into some queue
InQueues(m) == Count(mSharedWorkQueue, m) + CountLocal(m, Threads)

\* Pop calls that have taken m and are about to return it
Returning(m) ==
    Cardinality({t \in Threads : pc[t] = "pop_ret" /\ mailbox[t] = m})

\* callers holding m
Holders(m) == Cardinality({t \in Threads : m \in held[t]})

InCriticalSection(t) == pc[t] \in {"push_cs", "pop_cs", "empty_cs"}

\* t's step is the first step of a Pop call
PopCalled(t) == pc[t] = "idle" /\ pc'[t] \in {"pop_cs", "pop_ret"}

\* t's step is the guarded access of a Pop call
PopAccess(t) == pc[t] = "pop_cs" /\ pc'[t] = "pop_ret"

----------------------------------------------------------------------------
\* C1: no loss, no duplication.  For every mailbox, the pushes not yet
\* matched by a successful Pop are exactly the copies still queued plus the
\* Pop calls about to return it.  So a Pop only returns a mailbox that was
\* pushed and not returned since, there are never more successful pops than
\* pushes, and once nothing is queued or being returned the successful pops
\* equal the pushes.
C1_NoLossNoDuplication ==
    \A m \in Items :
        /\ outstanding[m] = InQueues(m) + Returning(m)
        /\ outstanding[m] >= 0

\* a worker returns a mailbox taken from the shared queue while another
\* mailbox waits in a local queue
C1_Witness ==
    \E t \in Workers, n \in Items :
        /\ pc[t] = "pop_ret"
        /\ mailbox[t] \notin {None, n}
        /\ via[mailbox[t]] = NoThread
        /\ via[n] \in Workers \ {t}
        /\ outstanding[n] = 1

\* C2: every mailbox is in exactly one place: linked once into one queue
\* (a local one or the shared one), or held by one caller (not pushed yet,
\* being returned by Pop, or popped and not pushed again).
C2_OnePlace ==
    \A m \in Items : InQueues(m) + Holders(m) + Returning(m) = 1

\* one mailbox in the shared queue, one in a local queue, one held
C2_Witness ==
    \E a, b, c \in Items :
        /\ Count(mSharedWorkQueue, a) = 1
        /\ \E t \in Workers : Count(mLocalWorkQueue[t], b) = 1
        /\ Holders(c) = 1

\* C3: the shared queue is read and written only by the thread holding the
\* spinlock: every thread about to access it (Push's append, Pop's test and
\* removal, Empty's test) holds the lock, so at most one thread is there, and
\* no access so far was made without it.
C3_SharedQueueGuarded ==
    /\ ~unguarded
    /\ \A t \in Threads :
          InCriticalSection(t) => mSharedWorkQueueSpinLock = t
    /\ Cardinality({t \in Threads : InCriticalSection(t)}) <= 1

\* Empty holds the lock over a non-empty shared queue while a worker with an
\* empty local queue is idle
C3_Witness ==
    \E t \in Threads, w \in Workers :
        /\ pc[t] = "empty_cs"
        /\ mSharedWorkQueueSpinLock = t
        /\ mSharedWorkQueue # <<>>
        /\ w # t
        /\ pc[w] = "idle"
        /\ mLocalWorkQueue[w] = <<>>

\* C4: local FIFO.  Whenever Pop is called on a worker context with mailboxes
\* pushed to it with local affinity and not popped yet, it takes the one
\* pushed first, and leaves the others in push order.  (The shared queue need
\* not be idle for this.)
C4_LocalFifo ==
    [][\A t \in Workers :
          (PopCalled(t) /\ localSeq[t] # <<>>) =>
              /\ pc'[t] = "pop_ret"
              /\ mailbox'[t] = Head(localSeq[t])
              /\ localSeq'[t] = Tail(localSeq[t])]_vars

\* Pop has taken the first of several local mailboxes, the shared queue unused
C4_Witness ==
    \E t \in Workers :
        /\ pc[t] = "pop_ret"
        /\ mailbox[t] # None
        /\ via[mailbox[t]] = t
        /\ Len(localSeq[t]) >= 2
        /\ sharedSeq = <<>>
        /\ mSharedWorkQueue = <<>>

\* C5: shared FIFO.  The guard orders the appends; every Pop that removes a
\* mailbox from the shared queue removes the one appended first among those
\* still in it.  So of two mailboxes appended by one thread (or by two), the
\* one appended first is removed first.
C5_SharedFifo ==
    [][\A t \in Workers :
          (PopAccess(t) /\ mailbox'[t] # None) =>
              /\ sharedSeq # <<>>
              /\ mailbox'[t] = Head(sharedSeq)
              /\ sharedSeq' = Tail(sharedSeq)]_vars

\* one worker has removed a mailbox, a second worker holds the guard to
\* remove the next, and a third mailbox waits behind it
C5_Witness ==
    \E t, u \in Workers :
        /\ t # u
        /\ pc[t] = "pop_ret"
        /\ mailbox[t] # None
        /\ via[mailbox[t]] = NoThread
        /\ pc[u] = "pop_cs"
        /\ Len(sharedSeq) >= 2

\* C6: a mailbox pushed with local affinity through worker context C sits in
\* C's local queue only, and only a Pop on C returns it.
C6_LocalAffinity ==
    /\ \A t \in Workers :
          (pc[t] = "pop_ret" /\ mailbox[t] # None
              /\ via[mailbox[t]] # NoThread) => via[mailbox[t]] = t
    /\ \A k \in 1..Len(mSharedWorkQueue) : via[mSharedWorkQueue[k]] = NoThread
    /\ \A t \in Threads : \A k \in 1..Len(mLocalWorkQueue[t]) :
          via[mLocalWorkQueue[t][k]] = t

\* a Pop on one worker context comes back empty-handed while the other
\* worker's local queue holds a mailbox
C6_Witness ==
    \E t, u \in Workers :
        /\ t # u
        /\ pc[t] = "pop_ret"
        /\ mailbox[t] = None
        /\ mLocalWorkQueue[u] # <<>>
        /\ via[Head(mLocalWorkQueue[u])] = u

\* C9: Empty's "true" is sound.  If the last call of a worker was an Empty
\* that answered true, and no mailbox was pushed to its local queue or to the
\* shared queue since, its next Pop returns no mailbox.
C9_EmptyTrueSound ==
    \A t \in Workers :
        (pc[t] = "pop_ret" /\ lastEmpty[t].res = "true") => mailbox[t] = None

\* such a Pop, while the other worker has local work
C9_Witness ==
    \E t, u \in Workers :
        /\ t # u
        /\ pc[t] = "pop_ret"
        /\ lastEmpty[t].res = "true"
        /\ mailbox[t] = None
        /\ mLocalWorkQueue[u] # <<>>

\* C10: Empty's "false" for a non-empty local queue stays valid.  Until the
\* owner's next call, whatever the other threads do, the local queue keeps
\* the same front; the owner's Pop then does not go to the shared queue and
\* returns that front.
C10_EmptyFalseLocalStable ==
    \A t \in Workers :
        lastEmpty[t].res = "false_local" =>
            /\ pc[t] \in {"idle", "pop_ret"}
            /\ pc[t] = "idle" =>
                  /\ mLocalWorkQueue[t] # <<>>
                  /\ Head(mLocalWorkQueue[t]) = lastEmpty[t].head
            /\ pc[t] = "pop_ret" => mailbox[t] = lastEmpty[t].head

\* the owner's Pop returns the front Empty saw, while the shared queue holds
\* a mailbox and the other worker is inside a Pop
C10_Witness ==
    \E t, u \in Workers :
        /\ t # u
        /\ lastEmpty[t].res = "false_local"
        /\ pc[t] = "pop_ret"
        /\ mailbox[t] = lastEmpty[t].head
        /\ mSharedWorkQueue # <<>>
        /\ pc[u] = "pop_cs"

----------------------------------------------------------------------------
AllDone == \A t \in Workers : pc[t] = "done"

AllQueuesEmpty ==
    /\ mSharedWorkQueue = <<>>
    /\ \A t \in Threads : mLocalWorkQueue[t] = <<>>

InSharedQueue(m) == Count(mSharedWorkQueue, m) > 0

ReturnedByPop(m) == \E t \in Workers : pc[t] = "pop_ret" /\ mailbox[t] = m

\* C7: once the producers have stopped and every worker polls with Pop until
\* Pop returns no mailbox, all workers finish, with the shared queue and
\* every local queue empty and every push matched by a successful pop.
C7_DrainTerminates ==
    (~pushing) ~>
        (AllDone /\ AllQueuesEmpty /\ \A m \in Items : outstanding[m] = 0)

\* drained: nothing left with the external producer, both workers hold
\* mailboxes they popped or never pushed
C7_Witness ==
    /\ AllDone
    /\ AllQueuesEmpty
    /\ held["e1"] = {}
    /\ \A t \in Workers : held[t] # {}

\* C8 as claimed: a mailbox in the shared queue is eventually returned by
\* some Pop, if the workers keep calling Pop and the guard is granted fairly.
C8_SharedEventuallyPopped ==
    \A m \in Items : InSharedQueue(m) ~> ReturnedByPop(m)

\* C8 as amended: the same, if moreover again and again some worker's Pop
\* finds its own local queue empty and so goes to the shared queue; and a Pop
\* that does so while the shared queue is not empty returns its front.
C8_SharedPoppedWhenLocalDrains ==
    /\ ([]<>(\E t \in Workers : pc[t] = "pop_cs")) =>
          (\A m \in Items : InSharedQueue(m) ~> ReturnedByPop(m))
    /\ [][\A t \in Workers :
            (PopAccess(t) /\ mSharedWorkQueue # <<>>) =>
                mailbox'[t] = Head(mSharedWorkQueue)]_vars

\* a worker whose local queue is empty returns a mailbox it found in the
\* shared queue while the other worker is busy with its own local queue
C8_Witness ==
    \E t, u \in Workers :
        /\ t # u
        /\ pc[t] = "pop_ret"
        /\ mailbox[t] # None
        /\ via[mailbox[t]] = NoThread
        /\ mLocalWorkQueue[t] = <<>>
        /\ pc[u] = "pop_ret"
        /\ mailbox[u] # None
        /\ via[mailbox[u]] = u

----------------------------------------------------------------------------
(* Pop's return and the backoff *)

\* t's step is the return of a Pop that found a mailbox
PopReturnsItem(t) ==
    pc[t] = "pop_ret" /\ mailbox[t] # None /\ pc'[t] # "pop_ret"

\* t's step is the return of a Pop that found none
PopReturnsNone(t) ==
    pc[t] = "pop_ret" /\ mailbox[t] = None /\ pc'[t] # "pop_ret"

\* C11: reset on success.  The return of every successful Pop on a context
\* (the mailbox taken from the local queue or from the shared queue) leaves
\* the context's backoff state at its baseline 0, whatever level the failed
\* pops before had reached; and nothing but the return of the context's own
\* Pop changes its backoff state, so the next failed Pop finds it at 0 and
\* executes step zero.
C11_ResetOnSuccess ==
    [][\A t \in Threads :
          /\ PopReturnsItem(t) => mYield'[t] = 0
          /\ mYield'[t] # mYield[t] =>
                (PopReturnsItem(t) \/ PopReturnsNone(t))
          /\ (PopReturnsNone(t) /\ mYield[t] = 0) =>
                mYield'[t] = YieldExecute(0)]_vars

\* a Pop is about to return a mailbox after failed pops have escalated the
\* backoff to its highest level
C11_Witness ==
    \E t \in Workers :
        /\ pc[t] = "pop_ret"
        /\ mailbox[t] # None
        /\ mYield[t] = MaxYield

\* C12: monotonic escalation.  The return of every failed Pop applies the
\* backoff action once to the context's level, which does not go down; the
\* level goes down only at the return of a successful Pop.
C12_MonotonicEscalation ==
    [][\A t \in Threads :
          /\ PopReturnsNone(t) =>
                /\ mYield'[t] = YieldExecute(mYield[t])
                /\ mYield'[t] >= mYield[t]
          /\ mYield'[t] < mYield[t] => PopReturnsItem(t)]_vars

\* a Pop fails after an earlier failed Pop of the same context, with no
\* successful one in between
C12_Witness ==
    \E t \in Workers :
        /\ pc[t] = "pop_ret"
        /\ mailbox[t] = None
        /\ mYield[t] >= 1

\* C13: a Pop that finds no work returns None, which is no mailbox; none of
\* its steps changes the shared queue or a local queue; it releases the
\* spinlock before it returns; and its return changes the caller's backoff
\* state only.
C13_FailedPopFrame ==
    /\ None \notin Items
    /\ [][\A t \in Workers :
            /\ (PopCalled(t) /\ pc'[t] = "pop_cs") =>
                  UNCHANGED <<mSharedWorkQueue, mLocalWorkQueue>>
            /\ (PopAccess(t) /\ mailbox'[t] = None) =>
                  /\ UNCHANGED <<mSharedWorkQueue, mLocalWorkQueue>>
                  /\ mSharedWorkQueueSpinLock' = NoThread
            /\ PopReturnsNone(t) =>
                  /\ UNCHANGED <<mSharedWorkQueue, mLocalWorkQueue,
                                 mSharedWorkQueueSpinLock, mShared, held>>
                  /\ mSharedWorkQueueSpinLock # t
                  /\ \A u \in Threads \ {t} : mYield'[u] = mYield[u]
                  /\ held'[t] = held[t]]_vars

\* a Pop that found the shared queue empty is about to return None; a
\* mailbox has been appended to the shared queue since it released the guard
C13_Witness ==
    \E t \in Workers :
        /\ pc[t] = "pop_ret"
        /\ mailbox[t] = None
        /\ mSharedWorkQueue # <<>>
        /\ mSharedWorkQueueSpinLock = NoThread

----------------------------------------------------------------------------
(* Which queue Push and Pop use *)

\* t's step is a Push of m to its local queue
PushedLocal(t, m) ==
    pc[t] = "idle" /\ pc'[t] = "idle" /\ m \in held[t] /\ m \notin held'[t]

\* t's step is the Lock() of a Push of m
PushLocked(t, m) ==
    pc[t] = "idle" /\ pc'[t] = "push_cs" /\ mailbox'[t] = m

\* t's step is the guarded append of a Push
PushAppend(t) == pc[t] = "push_cs" /\ pc'[t] = "idle"

\* C15: Push appends the mailbox to the tail of exactly one queue.  A push
\* to the local queue happens only on a worker context with the hint set,
\* takes no lock and leaves the shared queue and the other local queues
\* alone; a push that takes the lock happens only without the hint or on the
\* shared context, and appends to the shared queue leaving every local queue
\* alone.
C15_PushOneQueue ==
    [][\A t \in Threads :
          /\ (pc[t] = "idle" /\ pc'[t] = "idle" /\ held'[t] # held[t]) =>
                \E m \in held[t] :
                    /\ PushedLocal(t, m)
                    /\ ~mShared[t]
                    /\ via'[m] = t
                    /\ mLocalWorkQueue' =
                          [mLocalWorkQueue EXCEPT ![t] = Append(@, m)]
                    /\ UNCHANGED <<mSharedWorkQueue,
                                   mSharedWorkQueueSpinLock>>
                    /\ mSharedWorkQueueSpinLock # t
          /\ PushLocked(t, mailbox'[t]) =>
                /\ mailbox'[t] \in Items
                /\ mShared[t] \/ via'[mailbox'[t]] = NoThread
                /\ UNCHANGED <<mSharedWorkQueue, mLocalWorkQueue>>
          /\ PushAppend(t) =>
                /\ mSharedWorkQueue' = Append(mSharedWorkQueue, mailbox[t])
                /\ UNCHANGED mLocalWorkQueue
                /\ mSharedWorkQueueSpinLock' = NoThread]_vars

\* the shared context is about to append to the shared queue, behind a
\* mailbox already there, while a worker's local queue holds a mailbox
C15_Witness ==
    \E t \in Externals, w \in Workers :
        /\ mShared[t]
        /\ pc[t] = "push_cs"
        /\ mSharedWorkQueue # <<>>
        /\ mLocalWorkQueue[w] # <<>>

\* C16: Pop looks at the local queue first.  Called with a non-empty local
\* queue it returns that queue's head without taking the lock or touching
\* the shared queue, whatever the shared queue holds; it goes to the shared
\* queue, and a mailbox leaves the shared queue, only when the caller's
\* local queue is empty.
C16_LocalFirst ==
    [][/\ \A t \in Workers :
            /\ (PopCalled(t) /\ mLocalWorkQueue[t] # <<>>) =>
                  /\ pc'[t] = "pop_ret"
                  /\ mailbox'[t] = Head(mLocalWorkQueue[t])
                  /\ mLocalWorkQueue'[t] = Tail(mLocalWorkQueue[t])
                  /\ UNCHANGED <<mSharedWorkQueue, mSharedWorkQueueSpinLock>>
                  /\ mSharedWorkQueueSpinLock # t
            /\ (PopCalled(t) /\ pc'[t] = "pop_cs") =>
                  mLocalWorkQueue[t] = <<>>
            /\ PopAccess(t) => mLocalWorkQueue[t] = <<>>
       /\ Len(mSharedWorkQueue') < Len(mSharedWorkQueue) =>
            \E t \in Workers : PopAccess(t) /\ mLocalWorkQueue[t] = <<>>]_vars

\* a Pop returns a mailbox of its local queue while two mailboxes wait in
\* the unlocked shared queue
C16_Witness ==
    \E t \in Workers :
        /\ pc[t] = "pop_ret"
        /\ mailbox[t] # None
        /\ via[mailbox[t]] = t
        /\ Len(mSharedWorkQueue) >= 2
        /\ mSharedWorkQueueSpinLock = NoThread

\* C18: Pop does not fail spuriously.  Called with a non-empty local queue,
\* or finding the shared queue non-empty while it holds the lock, it takes a
\* mailbox and returns it; it takes none only when its local queue was empty
\* and the shared queue is empty at its guarded test.
C18_NoSpuriousFailure ==
    [][\A t \in Workers :
          /\ (PopCalled(t) /\ mLocalWorkQueue[t] # <<>>) => mailbox'[t] # None
          /\ (PopAccess(t) /\ mSharedWorkQueue # <<>>) => mailbox'[t] # None
          /\ (PopAccess(t) /\ mailbox'[t] = None) =>
                /\ mSharedWorkQueue = <<>>
                /\ mLocalWorkQueue[t] = <<>>
                /\ mSharedWorkQueueSpinLock = t
          /\ PopReturnsItem(t) => mailbox[t] \in held'[t]
          /\ PopReturnsNone(t) => held'[t] = held[t]]_vars

\* a Pop is about to return None while another thread's Push holds the lock
\* to append to the shared queue
C18_Witness ==
    \E t \in Workers, u \in Threads :
        /\ pc[t] = "pop_ret"
        /\ mailbox[t] = None
        /\ pc[u] = "push_cs"

\* inside Push, Pop or Empty, past the first step
InCall(t) == pc[t] \in {"push_cs", "pop_cs", "empty_cs", "pop_ret"}

\* C19: every Lock() is followed by its Unlock() before the call returns.  The
\* spinlock is held exactly while its holder is between Lock and Unlock in
\* Push, Pop or Empty, so a thread that asks for it does not hold it and
\* Pop's backoff runs without it.  With fair scheduling every call a thread
\* is in returns, and the spinlock is free again and again for the calls
\* waiting in Lock().
C19_GuardReleased ==
    /\ [](\A t \in Threads :
              mSharedWorkQueueSpinLock = t <=> InCriticalSection(t))
    /\ []((\A t \in Threads : ~InCriticalSection(t)) =>
              mSharedWorkQueueSpinLock = NoThread)
    /\ [][\A t \in Threads :
            (mSharedWorkQueueSpinLock' = t /\ mSharedWorkQueueSpinLock # t) =>
                (mSharedWorkQueueSpinLock = NoThread /\ pc[t] = "idle")]_vars
    /\ \A t \in Threads : InCall(t) ~> ~InCall(t)
    /\ []<>(mSharedWorkQueueSpinLock = NoThread)

\* a failed Pop is at its backoff, the lock already taken by the next caller
C19_Witness ==
    \E t \in Workers, u \in Threads :
        /\ pc[t] = "pop_ret"
        /\ mailbox[t] = None
        /\ mYield[t] >= 1
        /\ mSharedWorkQueueSpinLock = u
        /\ pc[u] = "empty_cs"

\* C20: the local queue of the shared context is always empty: no Push
\* through the shared context puts a mailbox there, with or without the
\* hint.  So Empty on the shared context, which only looks at the shared
\* queue, leaves no mailbox of its own context unseen.
C20_SharedContextNoLocal ==
    \A t \in Threads :
        (mShared[t] \/ t \in Externals) =>
            /\ mLocalWorkQueue[t] = <<>>
            /\ localSeq[t] = <<>>
            /\ \A m \in Items : via[m] # t

\* Empty on the shared context finds the shared queue empty after the
\* context has pushed all it had, a mailbox waiting in a worker's local queue
C20_Witness ==
    \E t \in Externals, w \in Workers :
        /\ mShared[t]
        /\ pc[t] = "empty_cs"
        /\ mSharedWorkQueue = <<>>
        /\ held[t] = {}
        /\ mLocalWorkQueue[w] # <<>>

----------------------------------------------------------------------------
(* The rest of the interface: the calls that do nothing, and Pop called on  *)
(* the shared context in a build with assertions.  A failed assertion halts *)
(* the program; a thread that released its context makes no further call.   *)

Halted == \E t \in Threads : pc[t] = "halted"

PopAssertFails(t) ==
    /\ pc[t] = "idle"
    /\ ~PopAssertion(t)
    /\ pc' = [pc EXCEPT ![t] = "halted"]
    /\ UNCHANGED <<mShared, mLocalWorkQueue, mYield, mSharedWorkQueue,
                   mSharedWorkQueueSpinLock, mailbox, held, pushing>>
    /\ UNCHANGED histVars

\* lines 191-194, entered
WakeAll(t) ==
    /\ pc[t] = "idle"
    /\ pc' = [pc EXCEPT ![t] = "wakeall"]
    /\ UNCHANGED <<mShared, mLocalWorkQueue, mYield, mSharedWorkQueue,
                   mSharedWorkQueueSpinLock, mailbox, held, pushing>>
    /\ UNCHANGED histVars

\* lines 191-194, returned from
WakeAllReturn(t) ==
    /\ pc[t] = "wakeall"
    /\ pc' = [pc EXCEPT ![t] = "idle"]
    /\ UNCHANGED <<mShared, mLocalWorkQueue, mYield, mSharedWorkQueue,
                   mSharedWorkQueueSpinLock, mailbox, held, pushing>>
    /\ UNCHANGED histVars

ReleaseSharedContext(t) ==
    /\ t \in Externals
    /\ pc[t] = "idle"
    /\ pc' = [pc EXCEPT ![t] = "released"]
    /\ UNCHANGED <<mShared, mLocalWorkQueue, mYield, mSharedWorkQueue,
                   mSharedWorkQueueSpinLock, mailbox, held, pushing>>
    /\ UNCHANGED histVars

\* the local queue is emptied on release
ReleaseWorkerContext_drop(t) ==
    /\ t \in Workers
    /\ pc[t] \in {"idle", "done"}
    /\ pc' = [pc EXCEPT ![t] = "released"]
    /\ mLocalWorkQueue' = [mLocalWorkQueue EXCEPT ![t] = <<>>]
    /\ UNCHANGED <<mShared, mYield, mSharedWorkQueue,
                   mSharedWorkQueueSpinLock, mailbox, held, pushing>>
    /\ UNCHANGED histVars

ReleaseWorkerContext(t) ==
    /\ t \in Workers
    /\ pc[t] \in {"idle", "done"}
    /\ pc' = [pc EXCEPT ![t] = "released"]
    /\ UNCHANGED <<mShared, mLocalWorkQueue, mYield, mSharedWorkQueue,
                   mSharedWorkQueueSpinLock, mailbox, held, pushing>>
    /\ UNCHANGED histVars

ApiNext ==
    \/ ~Halted /\ Next
    \/ \E t \in Threads : ~Halted /\ PopAssertFails(t)
    \/ \E t \in Threads : ~Halted /\ WakeAll(t)
    \/ \E t \in Threads : ~Halted /\ WakeAllReturn(t)
    \/ \E t \in Threads : ~Halted /\ ReleaseSharedContext(t)
    \/ \E t \in Threads : ~Halted /\ ReleaseWorkerContext(t)

ApiSpec == Init /\ [][ApiNext]_vars

\* C14: Pop on the shared context fails the assertion, and only there.  The
\* step that halts is taken by a context with mShared set, at the entry of
\* Pop, and changes no queue, lock or backoff state; no Pop gets past the
\* assertion on a context with mShared set; and no worker context ever fails
\* it.
C14_PopAssertsWorkerContext ==
    /\ [][\A t \in Threads :
            (pc'[t] = "halted" /\ pc[t] # "halted") =>
                /\ mShared[t]
                /\ pc[t] = "idle"
                /\ UNCHANGED <<mSharedWorkQueue, mLocalWorkQueue,
                               mSharedWorkQueueSpinLock, mYield, mailbox,
                               held>>]_vars
    /\ [](\A t \in Threads :
            pc[t] \in {"pop_cs", "pop_ret"} => ~mShared[t])
    /\ [](\A t \in Threads : pc[t] = "halted" => (mShared[t] /\ t \in Externals))

\* the shared context called Pop and the assertion halted the program, the
\* shared queue holding a mailbox Pop did not get to
C14_Witness ==
    \E t \in Externals :
        /\ pc[t] = "halted"
        /\ mShared[t]
        /\ mSharedWorkQueue # <<>>
        /\ mLocalWorkQueue[t] = <<>>

\* t's step enters or leaves WakeAll, or releases t's context
NoOpCall(t) ==
    /\ pc'[t] # pc[t]
    /\ pc[t] = "wakeall" \/ pc'[t] \in {"wakeall", "released"}

\* C17: WakeAll, ReleaseSharedContext and ReleaseWorkerContext change
\* nothing: not the shared queue, the spinlock, a local queue, a shared flag
\* or a backoff state, wherever the other threads are.  The mailboxes in the
\* local queue of a released worker context stay there: they are neither
\* moved to the shared queue nor dropped.
C17_NoOps ==
    [][\A t \in Threads :
          /\ NoOpCall(t) =>
                UNCHANGED <<mSharedWorkQueue, mSharedWorkQueueSpinLock,
                            mLocalWorkQueue, mShared, mYield, mailbox, held>>
          /\ pc[t] = "released" =>
                /\ pc'[t] = "released"
                /\ mLocalWorkQueue'[t] = mLocalWorkQueue[t]]_vars

\* a worker context was released with a mailbox in its local queue; the
\* other worker holds the lock inside Pop and the producer is in WakeAll
C17_Witness ==
    \E t, u \in Workers, e \in Externals :
        /\ pc[t] = "released"
        /\ mLocalWorkQueue[t] # <<>>
        /\ pc[u] = "pop_cs"
        /\ pc[e] = "wakeall"

====
